---- MODULE Spec2Model ----
(***************************************************************************)
(* FileManipulator (src/main.cpp): rewrites the tab-delimited fields of    *)
(* the lines of a file with per-field commands N:u, N:U and N:RAB.         *)
(*                                                                         *)
(* A character is a one-character string, a std::string is a sequence of   *)
(* characters.  Positions inside the std::string operators are 0-based as  *)
(* in C++; the sequences themselves are 1-based.                           *)
(***************************************************************************)
EXTENDS Integers, Sequences, FiniteSets, TLC

VARIABLES argc, args, pc, idx, commands, nread, written, prev, last,
          tstr, tdelim, tout, tpc

vars == <<argc, args, pc, idx, commands, nread, written, prev, last,
          tstr, tdelim, tout, tpc>>
mainvars == <<argc, args, pc, idx, commands, nread, written, prev, last>>
tokvars == <<tstr, tdelim, tout, tpc>>

(***************************************************************************)
(* Bounds of the model.                                                    *)
(***************************************************************************)
MaxArgs == 2
MaxLines == 2
MaxStrLen == 6

TAB == "\t"
COLON == ":"

(***************************************************************************)
(* std::string operations used by the program.                             *)
(***************************************************************************)
\* std::string::npos; size_t(-1) in the program, here the largest 32-bit
\* integer: only "npos is beyond every position of a string" is used.
npos == 2147483647

\* the range of int, for std::stoi's out_of_range
INT_MAX == 2147483647

RECURSIVE find_first_not_of(_, _, _)
find_first_not_of(str, delim, pos) ==
  IF pos >= Len(str) THEN npos
  ELSE IF str[pos + 1] # delim THEN pos
  ELSE find_first_not_of(str, delim, pos + 1)

RECURSIVE find(_, _, _)
find(str, delim, pos) ==
  IF pos >= Len(str) THEN npos
  ELSE IF str[pos + 1] = delim THEN pos
  ELSE find(str, delim, pos + 1)

\* str.substr(pos, n) for pos <= size: at most n characters, clamped to the end
substr(str, pos, n) ==
  LET stop == IF n > Len(str) - pos THEN Len(str) ELSE pos + n
  IN  SubSeq(str, pos + 1, stop)

toupper(c) ==
  CASE c = "a" -> "A" [] c = "b" -> "B" [] c = "c" -> "C" [] c = "d" -> "D"
    [] OTHER -> c

tolower(c) ==
  CASE c = "A" -> "a" [] c = "B" -> "b" [] c = "C" -> "c" [] c = "D" -> "d"
    [] OTHER -> c

(***************************************************************************)
(* tokenize: the while loop of lines 128-132, one iteration per unfolding. *)
(***************************************************************************)
RECURSIVE tokenize_loop(_, _, _, _)
tokenize_loop(str, delim, end, out) ==
  LET start == find_first_not_of(str, delim, end)
  IN  IF start = npos THEN out
      ELSE LET e == find(str, delim, start)
           IN  tokenize_loop(str, delim, e, Append(out, substr(str, start, e - start)))

\* a split that keeps the empty tokens between delimiters
RECURSIVE split_keep_empty(_, _, _, _)
split_keep_empty(str, delim, end, out) ==
  IF end >= Len(str) THEN out
  ELSE LET e == find(str, delim, end)
       IN  split_keep_empty(str, delim, IF e = npos THEN npos ELSE e + 1,
                            Append(out, substr(str, end, e - end)))

tokenize_keep_empty(str, delim) == split_keep_empty(str, delim, 0, <<>>)

tokenize(str, delim) == tokenize_loop(str, delim, 0, <<>>)

(***************************************************************************)
(* Commands.  apply returns std::optional<std::string>: has = FALSE is the *)
(* empty optional.                                                         *)
(***************************************************************************)
NoChar == ""
Nothing == [has |-> FALSE, val |-> <<>>]
Just(s) == [has |-> TRUE, val |-> s]

LowerCaseCommand(n) == [kind |-> "LowerCase", field |-> n, from |-> NoChar, to |-> NoChar]
UpperCaseCommand(n) == [kind |-> "UpperCase", field |-> n, from |-> NoChar, to |-> NoChar]
ReplaceCommand(n, from, to) == [kind |-> "Replace", field |-> n, from |-> from, to |-> to]

LowerCaseCommand_apply(cmd, field, str) ==
  IF field # cmd.field THEN Nothing
  ELSE Just([i \in 1..Len(str) |-> toupper(str[i])])

UpperCaseCommand_apply(cmd, field, str) ==
  IF field # cmd.field THEN Nothing
  ELSE Just([i \in 1..Len(str) |-> tolower(str[i])])

\* a replace that does write the 'to' character
ReplaceCommand_apply_to(cmd, field, str) ==
  IF field # cmd.field THEN Nothing
  ELSE Just([i \in 1..Len(str) |-> IF str[i] = cmd.from THEN cmd.to ELSE str[i]])

ReplaceCommand_apply(cmd, field, str) ==
  IF field # cmd.field THEN Nothing
  ELSE Just([i \in 1..Len(str) |-> IF str[i] = cmd.from THEN cmd.from ELSE str[i]])

\* the virtual call command->apply(field, str)
Command_apply(cmd, field, str) ==
  CASE cmd.kind = "LowerCase" -> LowerCaseCommand_apply(cmd, field, str)
    [] cmd.kind = "UpperCase" -> UpperCaseCommand_apply(cmd, field, str)
    [] cmd.kind = "Replace" -> ReplaceCommand_apply(cmd, field, str)

(***************************************************************************)
(* std::stoi: optional white space, optional sign, then the longest run of *)
(* decimal digits; what follows the digits is ignored.  Throws             *)
(* std::invalid_argument when there is no digit and std::out_of_range when *)
(* the value does not fit an int (the model takes magnitudes above INT_MAX *)
(* as out of range).                                                       *)
(***************************************************************************)
IsDigit(c) == c \in {"0", "1", "2", "3", "4", "5", "6", "7", "8", "9"}

DigitVal(c) ==
  CASE c = "0" -> 0 [] c = "1" -> 1 [] c = "2" -> 2 [] c = "3" -> 3 [] c = "4" -> 4
    [] c = "5" -> 5 [] c = "6" -> 6 [] c = "7" -> 7 [] c = "8" -> 8 [] c = "9" -> 9

RECURSIVE skip_space(_, _)
skip_space(s, i) ==
  IF i <= Len(s) /\ s[i] = " " THEN skip_space(s, i + 1) ELSE i

RECURSIVE read_digits(_, _, _)
read_digits(s, i, acc) ==
  IF i > Len(s) \/ ~IsDigit(s[i]) THEN acc
  ELSE LET d == DigitVal(s[i])
           over == acc.over \/ acc.val > (INT_MAX - d) \div 10
       IN  read_digits(s, i + 1,
             [val |-> IF over THEN 0 ELSE acc.val * 10 + d, count |-> acc.count + 1, over |-> over])

stoi(s) ==
  LET i0 == skip_space(s, 1)
      signed == i0 <= Len(s) /\ s[i0] \in {"-", "+"}
      neg == signed /\ s[i0] = "-"
      r == read_digits(s, IF signed THEN i0 + 1 ELSE i0, [val |-> 0, count |-> 0, over |-> FALSE])
  IN  IF r.count = 0 \/ r.over THEN [ok |-> FALSE, val |-> 0]
      ELSE [ok |-> TRUE, val |-> IF neg THEN 0 - r.val ELSE r.val]

(***************************************************************************)
(* parse_commands, one iteration of its loop (lines 143-173) on the token  *)
(* cmd: "push" appends the command, "usage" is print_help_and_exit(),      *)
(* "throw" is the exception std::stoi throws, which nothing catches.       *)
(***************************************************************************)
NoCommand == [kind |-> "None", field |-> 0, from |-> NoChar, to |-> NoChar]

parse_one(cmd) ==
  LET parts == tokenize(cmd, COLON)
  IN  IF Len(parts) # 2 THEN [outcome |-> "usage", command |-> NoCommand]
      ELSE LET n == stoi(parts[1])
           IN  IF ~n.ok THEN [outcome |-> "throw", command |-> NoCommand]
               ELSE IF parts[2] = <<"u">> THEN [outcome |-> "push", command |-> LowerCaseCommand(n.val)]
               ELSE IF parts[2] = <<"U">> THEN [outcome |-> "push", command |-> UpperCaseCommand(n.val)]
               ELSE IF Len(parts[2]) # 3 THEN [outcome |-> "usage", command |-> NoCommand]
               ELSE IF parts[2][1] # "R" THEN [outcome |-> "usage", command |-> NoCommand]
               ELSE [outcome |-> "push", command |-> ReplaceCommand(n.val, parts[2][2], parts[2][3])]

(***************************************************************************)
(* apply_commands.  Line 196 is                                            *)
(*     std::optional<std::string> modified_str = *command->apply(idx, str);*)
(* which dereferences the optional that apply returns.  When the command   *)
(* does not target the field the optional is empty and the dereference is  *)
(* undefined: the program is terminated (a hardened library, or the copy   *)
(* of a string that was never constructed throws), or the copy yields      *)
(* whatever the storage holds: the empty string, the string a previous     *)
(* call left there (the field's present text among them) or other bytes.   *)
(* In every case modified_str is built from a string, so has_value() is    *)
(* true.                                                                   *)
(***************************************************************************)
Garbage(str) == {<<>>, <<"z">>, str}

\* lines 197-200 with the value only: changed is left alone
store_value_only(st, val) == [crashed |-> FALSE, str |-> val, changed |-> st.changed]

\* lines 197-200: str = modified_str.value(); changed = true;
store_modified(st, val) == [crashed |-> FALSE, str |-> val, changed |-> TRUE]

\* the loop over the commands for the field at index i (lines 195-201)
RECURSIVE command_loop(_, _, _, _)
command_loop(cmds, j, i, st) ==
  IF j > Len(cmds) THEN {st}
  ELSE LET r == Command_apply(cmds[j], i, st.str)
       IN  IF r.has THEN command_loop(cmds, j + 1, i, store_modified(st, r.val))
           ELSE {[crashed |-> TRUE, str |-> st.str, changed |-> st.changed]}
                \cup UNION {command_loop(cmds, j + 1, i, store_modified(st, g)) : g \in Garbage(st.str)}

\* the loop over the fields (lines 193-203); k is the 1-based place of field k-1
RECURSIVE field_loop(_, _, _, _)
field_loop(fields, cmds, k, acc) ==
  IF k > Len(fields) THEN {acc}
  ELSE UNION {
         IF o.crashed
         THEN {[crashed |-> TRUE, changed |-> o.changed, modified |-> acc.modified]}
         ELSE field_loop(fields, cmds, k + 1,
                [crashed |-> FALSE, changed |-> o.changed, modified |-> Append(acc.modified, o.str)])
         : o \in command_loop(cmds, 1, k - 1,
                   [crashed |-> FALSE, str |-> fields[k], changed |-> acc.changed]) }

\* every result apply_commands can leave in (changed, modified); changed is
\* the caller's variable as it was passed in
apply_commands(line, cmds, changed) ==
  field_loop(tokenize(line, TAB), cmds, 1,
             [crashed |-> FALSE, changed |-> changed, modified |-> <<>>])

\* lines 225-231: the fields with a tab between them
RECURSIVE join(_, _)
join(modified, k) ==
  IF k > Len(modified) THEN <<>>
  ELSE modified[k] \o (IF k < Len(modified) THEN <<TAB>> ELSE <<>>) \o join(modified, k + 1)

(***************************************************************************)
(* The inputs: the command tokens argv[2..] are drawn from Tokens, the     *)
(* lines std::getline delivers from Lines.                                 *)
(***************************************************************************)
Tokens ==
  { <<"0", ":", "u">>, <<"0", ":", "U">>, <<"0", ":", "R", "a", "b">>,
    <<"-", "1", ":", "u">>, <<"1", "a", ":", "u">>,
    <<"b", "a", "d">>, <<"1", ":", "X", "Y", "Z">>, <<"1", ":", "R", ":", "b">>,
    <<"1", ":", "R", "a">>,
    <<"x", ":", "u">>, <<"x", ":", "X", "Y", "Z">> }

Lines ==
  { <<>>, <<"a", "b">>, <<"A", "B">>, <<"a", "B", TAB, TAB, "c", "d">> }

NoLine ==
  [valid |-> FALSE, line |-> <<>>, fields |-> <<>>, changed |-> FALSE,
   modified |-> <<>>, emitted |-> FALSE, crashed |-> FALSE, text |-> <<>>]

TokIdle == /\ tstr = <<>> /\ tdelim = TAB /\ tout = <<>> /\ tpc = "idle"

\* the process as main is entered: argc >= 1, argv[1] the file path when
\* argc >= 2, args the command tokens argv[2..argc-1]
Init ==
  /\ argc \in 1..(MaxArgs + 2)
  /\ args \in [1..(IF argc >= 2 THEN argc - 2 ELSE 0) -> Tokens]
  /\ pc = "start"
  /\ idx = 2
  /\ commands = <<>>
  /\ nread = 0
  /\ written = 0
  /\ prev = NoLine
  /\ last = NoLine
  /\ TokIdle

\* main, lines 208-213
CheckArgs ==
  /\ pc = "start"
  /\ pc' = IF argc < 2 THEN "exit1" ELSE "parse"
  /\ UNCHANGED <<argc, args, idx, commands, nread, written, prev, last>>
  /\ UNCHANGED tokvars

\* parse_commands, one iteration of the for loop (lines 142-174) on argv[idx]
ParseToken ==
  /\ pc = "parse"
  /\ idx < argc
  /\ LET r == parse_one(args[idx - 1])
     IN  /\ pc' = CASE r.outcome = "push" -> "parse"
                    [] r.outcome = "usage" -> "exit1"
                    [] r.outcome = "throw" -> "aborted"
         /\ commands' = IF r.outcome = "push" THEN Append(commands, r.command) ELSE commands
         /\ idx' = IF r.outcome = "push" THEN idx + 1 ELSE idx
  /\ UNCHANGED <<argc, args, nread, written, prev, last>>
  /\ UNCHANGED tokvars

\* parse_commands returns, main opens the file (lines 174, 214-217)
OpenFile ==
  /\ pc = "parse"
  /\ idx >= argc
  /\ pc' = "read"
  /\ UNCHANGED <<argc, args, idx, commands, nread, written, prev, last>>
  /\ UNCHANGED tokvars

\* one iteration of the getline loop (lines 218-234): changed is declared
\* without an initializer (line 220), so apply_commands receives an
\* indeterminate value in it
ProcessLine ==
  /\ pc = "read"
  /\ nread < MaxLines
  /\ \E line \in Lines, uninit \in BOOLEAN :
       \E o \in apply_commands(line, commands, uninit) :
         /\ pc' = IF o.crashed THEN "crashed" ELSE "read"
         /\ written' = IF ~o.crashed /\ o.changed THEN written + 1 ELSE written
         /\ last' = [valid |-> TRUE, line |-> line, fields |-> tokenize(line, TAB),
                     changed |-> o.changed, modified |-> o.modified,
                     emitted |-> ~o.crashed /\ o.changed, crashed |-> o.crashed,
                     text |-> IF ~o.crashed /\ o.changed THEN join(o.modified, 1) ELSE <<>>]
  /\ prev' = last
  /\ nread' = nread + 1
  /\ UNCHANGED <<argc, args, idx, commands>>
  /\ UNCHANGED tokvars

\* getline fails (end of file, or the file could not be opened): return 0
EndOfFile ==
  /\ pc = "read"
  /\ pc' = "done"
  /\ UNCHANGED <<argc, args, idx, commands, nread, written, prev, last>>
  /\ UNCHANGED tokvars

Next == CheckArgs \/ ParseToken \/ OpenFile \/ ProcessLine \/ EndOfFile

Spec == Init /\ [][Next]_vars

(***************************************************************************)
(* tokenize on its own: every string of at most MaxStrLen characters over  *)
(* a letter and the two delimiters the program uses.                       *)
(***************************************************************************)
TokChars == {"a", TAB, COLON}

TokStrings == UNION {[1..n -> TokChars] : n \in 0..MaxStrLen}

MainIdle ==
  /\ argc = 1 /\ args = <<>> /\ pc = "idle" /\ idx = 2 /\ commands = <<>>
  /\ nread = 0 /\ written = 0 /\ prev = NoLine /\ last = NoLine

InitTok ==
  /\ tstr \in TokStrings
  /\ tdelim \in {TAB, COLON}
  /\ tout = <<>>
  /\ tpc = "call"
  /\ MainIdle

TokenizeCall ==
  /\ tpc = "call"
  /\ tout' = tokenize(tstr, tdelim)
  /\ tpc' = "done"
  /\ UNCHANGED <<tstr, tdelim>>
  /\ UNCHANGED mainvars

NextTok == TokenizeCall

SpecTok == InitTok /\ [][NextTok]_vars

(***************************************************************************)
(* Properties.                                                             *)
(***************************************************************************)
\* the last line went through apply_commands and the output step
Processed == last.valid /\ ~last.crashed

\* the 0-based indices of the fields of the last line
FieldIndices == 0..(Len(last.fields) - 1)

\* no command targets a field the last line has
NoMatch == \A j \in 1..Len(commands) : commands[j].field \notin FieldIndices

Differs == \E k \in 1..Len(last.modified) : last.modified[k] # last.fields[k]

\* C1: a line is written only when changed is true, and a line none of whose
\* field indices is the target of a command (every line when there is no
\* command) is not written.
C1_OutputOnlyWhenChanged ==
  last.valid =>
    /\ last.emitted => last.changed
    /\ NoMatch => ~last.emitted

\* C2: with a single command targeting field k, every returned field i # k
\* equals the input field.
C2_NonTargetUntouched ==
  (last.valid /\ Len(commands) = 1) =>
    \A k \in 1..Len(last.modified) :
      (k - 1 # commands[1].field) => last.modified[k] = last.fields[k]

\* every command targets the only field of the last line: apply_commands read
\* neither an empty optional nor the flag's indeterminate value
AllMatch ==
  /\ Len(commands) >= 1 /\ Len(last.fields) = 1
  /\ \A j \in 1..Len(commands) : commands[j].field = 0

C5_SameLineSameResult ==
  (prev.valid /\ last.valid /\ prev.line = last.line) =>
    /\ prev.emitted = last.emitted
    /\ prev.modified = last.modified

\* the grammar of C6: two parts, the second "u", "U" or R and two characters
Grammar6(tok) ==
  LET parts == tokenize(tok, COLON)
  IN  /\ Len(parts) = 2
      /\ \/ parts[2] = <<"u">>
         \/ parts[2] = <<"U">>
         \/ Len(parts[2]) = 3 /\ parts[2][1] = "R"

\* the token args[j] has been looked at by parse_commands
Examined(j) == j < idx - 1 \/ (j = idx - 1 /\ pc \in {"exit1", "aborted"})

\* the token args[j] has been accepted: its command is in the list
Accepted(j) == j < idx - 1

\* C6: a token is accepted only if it follows the grammar; every other token
\* ends the run with the usage message and exit code 1 and adds no command.
C6_RejectsWithUsage ==
  \A j \in 1..Len(args) :
    /\ Accepted(j) => Grammar6(args[j])
    /\ (Examined(j) /\ ~Grammar6(args[j])) =>
         pc = "exit1" /\ idx = j + 1 /\ Len(commands) = j - 1

\* part 1 is a non-empty run of decimal digits
IndexOk(tok) ==
  LET parts == tokenize(tok, COLON)
  IN  Len(parts) >= 1 /\ \A i \in 1..Len(parts[1]) : IsDigit(parts[1][i])

\* C7: part 1 of an accepted token is a non-negative integer; a token whose
\* part 1 is negative, not numeric or partly numeric ends the run with the
\* usage message and exit code 1, and no command has a negative index.
C7_IndexIsNonNegativeInteger ==
  /\ \A j \in 1..Len(args) :
       /\ Accepted(j) => IndexOk(args[j])
       /\ (Examined(j) /\ ~IndexOk(args[j])) => pc = "exit1" /\ idx = j + 1
  /\ \A j \in 1..Len(commands) : commands[j].field >= 0

Malformed(tok) == ~(Grammar6(tok) /\ IndexOk(tok))

\* C8: every token is parsed before the first line is read, and when the
\* file path is missing or some token is malformed the run ends with exit
\* code 1 and no line has been written.
C8_FailFast ==
  /\ nread > 0 => idx >= argc
  /\ (argc < 2 \/ \E j \in 1..Len(args) : Malformed(args[j])) =>
       /\ written = 0
       /\ nread = 0
       /\ pc \in {"start", "parse", "exit1"}

\* the text of field i after the commands that target it, left to right
RECURSIVE Compose(_, _, _, _)
Compose(cmds, j, i, str) ==
  IF j > Len(cmds) THEN str
  ELSE LET r == Command_apply(cmds[j], i, str)
       IN  Compose(cmds, j + 1, i, IF r.has THEN r.val ELSE str)

\* C9: once parsing is over the list holds one command per token, in the
\* tokens' order, and every returned field is the left-to-right composition
\* of the commands that target it.
C9_OrderedComposition ==
  /\ pc \in {"read", "done", "crashed"} =>
       /\ Len(commands) = Len(args)
       /\ \A j \in 1..Len(args) : commands[j] = parse_one(args[j]).command
  /\ last.valid =>
       \A k \in 1..Len(last.modified) :
         last.modified[k] = Compose(commands, 1, k - 1, last.fields[k])

\* the maximal runs of characters other than d in s, left to right
RunStarts(s, d) == {i \in 1..Len(s) : s[i] # d /\ (i = 1 \/ s[i - 1] = d)}

RunEnd(s, d, i) ==
  CHOOSE j \in i..Len(s) :
    /\ \A k \in i..j : s[k] # d
    /\ j = Len(s) \/ s[j + 1] = d

MaximalRuns(s, d) ==
  [n \in 1..Cardinality(RunStarts(s, d)) |->
     LET i == CHOOSE x \in RunStarts(s, d) :
                Cardinality({y \in RunStarts(s, d) : y < x}) = n - 1
     IN  SubSeq(s, i, RunEnd(s, d, i))]

\* C10: tokenize returns exactly the maximal runs of non-delimiter
\* characters in order: no token is empty or holds the delimiter, and the
\* result is empty for an empty or all-delimiter input.
C10_TokenizeMaximalRuns ==
  tpc = "done" =>
    /\ tout = MaximalRuns(tstr, tdelim)
    /\ \A n \in 1..Len(tout) :
         Len(tout[n]) > 0 /\ \A i \in 1..Len(tout[n]) : tout[n][i] # tdelim
    /\ (\A i \in 1..Len(tstr) : tstr[i] = tdelim) => tout = <<>>

C10_Witness ==
  /\ tpc = "done" /\ Len(tout) = 2
  /\ tstr[1] = tdelim /\ tstr[Len(tstr)] = tdelim
  /\ \E i \in 1..(Len(tstr) - 1) : tstr[i] = tdelim /\ tstr[i + 1] = tdelim

====
